---- MODULE Spec2Model ----
(***************************************************************************)
(* Buffer chains of src/core/ngx_buf.c: chain links and buffers live in a  *)
(* heap indexed by small integers (0 is the null pointer), and every       *)
(* function of the file is an operator that maps a heap to the heap the    *)
(* function leaves behind.  Each specification draws the heap a call       *)
(* starts from out of a bounded set and applies the call once.             *)
(* ngx_buf.h is not part of the sources at hand: its macros                *)
(* (ngx_buf_in_memory, ngx_buf_special, ngx_buf_size, ngx_free_chain,      *)
(* ngx_calloc_buf) are written down next to the code that uses them.       *)
(* The segmented list of src/core/ngx_list.c lives in the same heap; its   *)
(* ngx_list_init is a function of ngx_list.h, not at hand either.          *)
(***************************************************************************)
EXTENDS Integers, Sequences, FiniteSets, TLC

VARIABLES
    bufs,        \* the ngx_buf_t objects: a sequence of records, indexed by address
    links,       \* the ngx_chain_t objects: records [buf, next]
    pool_chain,  \* pool->chain, the pool's free list of chain links
    arena,       \* the pool's memory: how many more allocations ngx_palloc serves
                 \* (room), the address of the next data block (brk), and what a
                 \* chain link carved from it holds before anyone writes it (junk)
    free,        \* *free of ngx_chain_update_chains / ngx_chain_get_free_buf
    busy,        \* *busy of ngx_chain_update_chains
    out,         \* *out of ngx_chain_update_chains
    chain,       \* *chain of ngx_chain_add_copy, the result of ngx_create_chain_of_bufs
    in,          \* the in argument (ngx_chain_add_copy, coalesce_file, update_sent)
    list,        \* the ngx_list_t of src/core/ngx_list.c: nalloc, size, last and its parts
    pc,          \* which call is about to be made; "done" once it returned
    call         \* the call that returned: its name, arguments, result and the heap before

vars == <<bufs, links, pool_chain, arena, free, busy, out, chain, in, list, pc, call>>

NULL == 0

\* ---------------------------------------------------------------- bounds
\* the longest chain handed to ngx_chain_update_chains as busy followed by out
MaxLen == 3
\* the longest free chain and pool->chain a call starts with
MaxFree == 1

\* the two buffer tags a consumer tells apart: its own and a foreign one
TagT == 1
TagU == 2
Tags == {TagT, TagU}

\* ---------------------------------------------------------------- buffers
Buf(start, pos, last, end, fpos, flast, tmp, inf, fd, tag, fl) ==
    [start |-> start, pos |-> pos, last |-> last, end |-> end,
     file_pos |-> fpos, file_last |-> flast,
     temporary |-> tmp, in_file |-> inf, fd |-> fd, tag |-> tag, flush |-> fl]

\* ngx_calloc_buf: a zeroed buffer header
ngx_calloc_buf == Buf(0, 0, 0, 0, 0, 0, FALSE, FALSE, 0, 0, FALSE)

\* the buffer has bytes in memory (of the memory flags only temporary is set by
\* the code at hand)
ngx_buf_in_memory(b) == b.temporary

\* a marker: a flag such as flush, and neither memory nor file behind it
ngx_buf_special(b) == b.flush /\ ~ngx_buf_in_memory(b) /\ ~b.in_file

\* ngx_buf_size of ngx_buf.h, as the functions of ngx_buf.c behave with it: a
\* buffer with memory behind it counts last - pos whatever its file range, any
\* other buffer file_last - file_pos. ngx_chain_update_sent consumes a buffer that
\* is both memory- and file-backed once (lines 329-349 move pos and file_pos by
\* the same amount), which a size of memory bytes plus file bytes would count
\* twice.
ngx_buf_size(b) ==
    IF ngx_buf_in_memory(b) THEN b.last - b.pos ELSE b.file_last - b.file_pos

\* ---------------------------------------------------------------- chains
\* the heap a function works on
Heap == [bufs |-> bufs, links |-> links, pool_chain |-> pool_chain, arena |-> arena,
         free |-> free, busy |-> busy, out |-> out, chain |-> chain, in |-> in,
         list |-> list]

IsLink(h, cl) == cl \in 1..Len(h.links)

\* the links reached from cl by following next, while they are links of the
\* heap and at most n of them: a chain is well formed when the walk ends at NULL
RECURSIVE Walk(_, _, _)
Walk(h, cl, n) ==
    IF cl = NULL \/ ~IsLink(h, cl) \/ n = 0 THEN <<>>
    ELSE <<cl>> \o Walk(h, h.links[cl].next, n - 1)

ChainOf(h, cl) == Walk(h, cl, Len(h.links) + 1)

RECURSIVE EndOf(_, _, _)
EndOf(h, cl, n) ==
    IF cl = NULL \/ ~IsLink(h, cl) \/ n = 0 THEN cl
    ELSE EndOf(h, h.links[cl].next, n - 1)

\* the chain from cl ends at NULL after finitely many links of the heap
NullTerminated(h, cl) == EndOf(h, cl, Len(h.links) + 1) = NULL

BufOf(h, cl) == h.bufs[h.links[cl].buf]

BufsOf(h, cl) == [i \in 1..Len(ChainOf(h, cl)) |-> h.links[ChainOf(h, cl)[i]].buf]

Range(s) == {s[i] : i \in 1..Len(s)}

Rev(s) == [i \in 1..Len(s) |-> s[Len(s) + 1 - i]]

\* ---------------------------------------------------------------- ngx_free_chain
ngx_free_chain(h, cl) ==
    [h EXCEPT !.links[cl].next = h.pool_chain, !.pool_chain = cl]

\* ---------------------------------------------------------------- ngx_chain_update_chains
\* lines 225-237: out is linked behind the last link of busy
uc_fold(h) ==
    IF h.out = NULL THEN h
    ELSE IF h.busy = NULL THEN [h EXCEPT !.busy = h.out, !.out = NULL]
    ELSE LET c == ChainOf(h, h.busy)
             cl == c[Len(c)]
         IN  [h EXCEPT !.links[cl].next = h.out, !.out = NULL]

\* lines 248-252: a drained buffer of another owner, its link goes to the pool
uc_discard(h, cl) ==
    ngx_free_chain([h EXCEPT !.busy = h.links[cl].next], cl)

\* lines 255-256: the memory cursors go back to start
uc_reset(b) == [b EXCEPT !.pos = b.start, !.last = b.start]

\* lines 259-262: the link moves to the head of free
uc_tofree_tail(h, cl) ==
    IF h.free = NULL
    THEN [h EXCEPT !.busy = h.links[cl].next, !.links[cl].next = NULL, !.free = cl]
    ELSE LET f == ChainOf(h, h.free)
         IN  [h EXCEPT !.busy = h.links[cl].next, !.links[cl].next = NULL,
                       !.links[f[Len(f)]].next = cl]
uc_tofree(h, cl) ==
    [h EXCEPT !.busy = h.links[cl].next, !.links[cl].next = h.free, !.free = cl]

uc_reclaim(h, cl) ==
    uc_tofree([h EXCEPT !.bufs[h.links[cl].buf] = uc_reset(@)], cl)

\* line 243: the loop stops at the first buffer that is not drained
uc_stop_memory(h, cl) == BufOf(h, cl).last - BufOf(h, cl).pos # 0
uc_stop(h, cl) == ngx_buf_size(BufOf(h, cl)) # 0

\* line 248: the buffer belongs to another owner
uc_foreign_never(h, cl, tag) == FALSE
uc_foreign(h, cl, tag) == BufOf(h, cl).tag # tag

\* lines 239-263
RECURSIVE uc_loop(_, _)
uc_loop(h, tag) ==
    IF h.busy = NULL THEN h
    ELSE LET cl == h.busy
         IN  IF uc_stop(h, cl) THEN h
             ELSE IF uc_foreign(h, cl, tag) THEN uc_loop(uc_discard(h, cl), tag)
             ELSE uc_loop(uc_reclaim(h, cl), tag)

ngx_chain_update_chains(h, tag) == uc_loop(uc_fold(h), tag)

\* ---------------------------------------------------------------- the heaps a call starts from
\* the buffers a consumer finds on busy and out
MemDrained(tag) == Buf(0, 1, 1, 2, 0, 0, TRUE, FALSE, 0, tag, FALSE)
MemPending(tag) == Buf(0, 0, 1, 2, 0, 0, TRUE, FALSE, 0, tag, FALSE)
FilePending(tag) == Buf(0, 0, 0, 0, 1, 2, FALSE, TRUE, 1, tag, FALSE)
BothDrained(tag) == Buf(0, 1, 1, 2, 2, 2, TRUE, TRUE, 1, tag, FALSE)
MemDrainedFilePending(tag) == Buf(0, 1, 1, 2, 0, 1, TRUE, TRUE, 1, tag, FALSE)
Flush(tag) == Buf(0, 0, 0, 0, 0, 0, FALSE, FALSE, 0, tag, TRUE)

ChainBufs ==
    {MemDrained(TagT), MemDrained(TagU), MemPending(TagT), FilePending(TagU),
     BothDrained(TagT), MemDrainedFilePending(TagT), Flush(TagU)}

\* a buffer that was recycled before: its link waits on free
Recycled == Buf(0, 0, 0, 2, 0, 0, TRUE, FALSE, 0, TagT, FALSE)

\* links 1..n in chain order, cut into a first chain of nb links and a second one
Linked(n, nb) ==
    [i \in 1..n |-> [buf |-> i, next |-> IF i = nb \/ i = n THEN NULL ELSE i + 1]]

\* nf more links, each with a buffer of its own, as one chain starting at link n + 1
Extra(n, nf) ==
    [i \in 1..nf |-> [buf |-> n + i, next |-> IF i = nf THEN NULL ELSE n + i + 1]]

NoCall == [op |-> "none"]

\* no list was created
NoList == [nalloc |-> 0, size |-> 0, last |-> NULL, parts |-> <<>>]

\* the calls that allocate nothing are made with an arena that is never asked
NoArena == [room |-> 0, brk |-> 0, junk |-> [buf |-> NULL, next |-> NULL]]

InitChains ==
    \E n \in 0..MaxLen, nf \in 0..MaxFree, np \in 0..MaxFree :
    \E nb \in 0..n :
    \E bs \in [1..n -> ChainBufs] :
        /\ bufs = bs \o [i \in 1..nf |-> Recycled] \o [i \in 1..np |-> MemDrained(TagU)]
        /\ links = Linked(n, nb) \o Extra(n, nf) \o Extra(n + nf, np)
        /\ busy = IF nb > 0 THEN 1 ELSE NULL
        /\ out = IF n > nb THEN nb + 1 ELSE NULL
        /\ free = IF nf > 0 THEN n + 1 ELSE NULL
        /\ pool_chain = IF np > 0 THEN n + nf + 1 ELSE NULL
        /\ chain = NULL
        /\ in = NULL
        /\ arena = NoArena
        /\ pc = "update_chains"
        /\ call = NoCall
        /\ list = NoList

\* the heap becomes the variables
Store(h) ==
    /\ bufs' = h.bufs
    /\ links' = h.links
    /\ pool_chain' = h.pool_chain
    /\ arena' = h.arena
    /\ free' = h.free
    /\ busy' = h.busy
    /\ out' = h.out
    /\ chain' = h.chain
    /\ in' = h.in
    /\ list' = h.list

UpdateChains ==
    /\ pc = "update_chains"
    /\ \E tag \in Tags :
        /\ Store(ngx_chain_update_chains(Heap, tag))
        /\ call' = [op |-> "update_chains", pre |-> Heap, tag |-> tag]
    /\ pc' = "done"

SpecChains == InitChains /\ [][UpdateChains]_vars

\* ---------------------------------------------------------------- ngx_chain_update_sent
\* the longest chain handed to ngx_chain_update_sent
MaxSentLen == 3
\* the largest byte count reported to ngx_chain_update_sent
MaxSent == 7

\* lines 319-321: a special buffer is walked over
us_skip_never(b) == FALSE
us_skip(b) == ngx_buf_special(b)

\* lines 323-325: nothing is left of sent
us_stop_never(sent) == FALSE
us_stop(sent) == sent = 0

\* line 329: the whole buffer was sent
us_full_strict(sent, size) == sent > size
us_full(sent, size) == sent >= size

\* lines 332-338: the cursors of the backings the buffer has go to their ends
us_drain(b) ==
    [b EXCEPT !.pos = IF ngx_buf_in_memory(b) THEN b.last ELSE @,
              !.file_pos = IF b.in_file THEN b.file_last ELSE @]

\* lines 343-349: the cursors of the backings the buffer has advance by sent
us_advance_none(b, sent) == b
us_advance(b, sent) ==
    [b EXCEPT !.pos = IF ngx_buf_in_memory(b) THEN @ + sent ELSE @,
              !.file_pos = IF b.in_file THEN @ + sent ELSE @]

\* lines 317-354: the heap the walk leaves and the link it returns
RECURSIVE us_loop(_, _, _)
us_loop(h, cl, sent) ==
    IF cl = NULL THEN [h |-> h, ret |-> NULL]
    ELSE LET b == BufOf(h, cl)
             size == ngx_buf_size(b)
         IN  IF us_skip(b) THEN us_loop(h, h.links[cl].next, sent)
             ELSE IF us_stop(sent) THEN [h |-> h, ret |-> cl]
             ELSE IF us_full(sent, size)
             THEN us_loop([h EXCEPT !.bufs[h.links[cl].buf] = us_drain(b)],
                          h.links[cl].next, sent - size)
             ELSE [h |-> [h EXCEPT !.bufs[h.links[cl].buf] = us_advance(b, sent)],
                   ret |-> cl]

ngx_chain_update_sent(h, cl, sent) == us_loop(h, cl, sent)

\* the buffers a writer finds on the chain it sends
Mem(n) == Buf(0, 1, 1 + n, 4, 0, 0, TRUE, FALSE, 0, TagT, FALSE)
File(n) == Buf(0, 0, 0, 0, 1, 1 + n, FALSE, TRUE, 1, TagT, FALSE)
Both(n, f) == Buf(0, 1, 1 + n, 4, 1, 1 + f, TRUE, TRUE, 1, TagT, FALSE)

SentBufs ==
    {Mem(0), Mem(1), Mem(2), File(1), File(3), Both(2, 2), Both(3, 1), Both(0, 1),
     Flush(TagT), ngx_calloc_buf}

InitSent ==
    \E n \in 0..MaxSentLen :
    \E bs \in [1..n -> SentBufs] :
        /\ bufs = bs
        /\ links = Linked(n, n)
        /\ in = IF n > 0 THEN 1 ELSE NULL
        /\ busy = NULL /\ out = NULL /\ free = NULL /\ pool_chain = NULL /\ chain = NULL
        /\ arena = NoArena
        /\ pc = "update_sent"
        /\ call = NoCall
        /\ list = NoList

UpdateSent ==
    /\ pc = "update_sent"
    /\ \E sent \in 0..MaxSent :
        LET r == ngx_chain_update_sent(Heap, in, sent)
        IN  /\ Store(r.h)
            /\ call' = [op |-> "update_sent", pre |-> Heap, sent |-> sent, ret |-> r.ret]
    /\ pc' = "done"

SpecSent == InitSent /\ [][UpdateSent]_vars

\* ---------------------------------------------------------------- ngx_chain_coalesce_file
\* the longest chain handed to ngx_chain_coalesce_file
MaxFileLen == 3
\* the largest limit handed to ngx_chain_coalesce_file
MaxLimit == 6

\* ngx_pagesize is a power of two
PageSizes == {1, 2, 4}

\* a & b on naturals
RECURSIVE BitAnd(_, _)
BitAnd(a, b) ==
    IF a = 0 \/ b = 0 THEN 0
    ELSE (a % 2) * (b % 2) + 2 * BitAnd(a \div 2, b \div 2)

\* lines 285-286: (end + ngx_pagesize - 1) & ~(ngx_pagesize - 1)
cf_align(end, pagesize) ==
    (end + pagesize - 1) - BitAnd(end + pagesize - 1, pagesize - 1)

\* lines 283-292: what a segment longer than the rest of the limit adds to total
cf_truncate_rounded(b, rest, pagesize) ==
    cf_align(b.file_pos + rest, pagesize) - b.file_pos
cf_truncate(b, rest, pagesize) ==
    LET aligned == cf_align(b.file_pos + rest, pagesize)
    IN  IF aligned <= b.file_last THEN aligned - b.file_pos ELSE rest

\* lines 300-304: the next link continues the file range
cf_continues_any(h, cl, fd, fprev, total, limit) ==
    /\ cl # NULL
    /\ BufOf(h, cl).in_file
    /\ total < limit
    /\ fd = BufOf(h, cl).fd
cf_continues(h, cl, fd, fprev, total, limit) ==
    /\ cl # NULL
    /\ BufOf(h, cl).in_file
    /\ total < limit
    /\ fd = BufOf(h, cl).fd
    /\ fprev = BufOf(h, cl).file_pos

\* lines 279-304: the total, and the link *in is left at
RECURSIVE cf_loop(_, _, _, _, _, _)
cf_loop(h, cl, fd, total, limit, pagesize) ==
    LET b == BufOf(h, cl)
        size == b.file_last - b.file_pos
        next == h.links[cl].next
    IN  IF size > limit - total
        THEN [total |-> total + cf_truncate(b, limit - total, pagesize), in |-> cl]
        ELSE IF cf_continues(h, next, fd, b.file_pos + size, total + size, limit)
        THEN cf_loop(h, next, fd, total + size, limit, pagesize)
        ELSE [total |-> total + size, in |-> next]

ngx_chain_coalesce_file(h, limit, pagesize) ==
    cf_loop(h, h.in, BufOf(h, h.in).fd, 0, limit, pagesize)

\* a buffer for bytes a..b of file fd
FileRange(fd, a, b) == Buf(0, 0, 0, 0, a, b, FALSE, TRUE, fd, TagT, FALSE)

CoalesceBufs ==
    {FileRange(1, 0, 2), FileRange(1, 2, 5), FileRange(1, 5, 6), FileRange(1, 0, 5),
     FileRange(2, 2, 5), FileRange(1, 3, 5), FileRange(1, 2, 2), Mem(2)}

InitCoalesce ==
    \E n \in 1..MaxFileLen :
    \E bs \in [1..n -> CoalesceBufs] :
        /\ bs[1].in_file
        /\ bufs = bs
        /\ links = Linked(n, n)
        /\ in = 1
        /\ busy = NULL /\ out = NULL /\ free = NULL /\ pool_chain = NULL /\ chain = NULL
        /\ arena = NoArena
        /\ pc = "coalesce_file"
        /\ call = NoCall
        /\ list = NoList

CoalesceFile ==
    /\ pc = "coalesce_file"
    /\ \E limit \in 1..MaxLimit, pagesize \in PageSizes :
        LET r == ngx_chain_coalesce_file(Heap, limit, pagesize)
        IN  /\ Store([Heap EXCEPT !.in = r.in])
            /\ call' = [op |-> "coalesce_file", pre |-> Heap, limit |-> limit,
                        pagesize |-> pagesize, ret |-> r.total]
    /\ pc' = "done"

SpecCoalesce == InitCoalesce /\ [][CoalesceFile]_vars

\* ---------------------------------------------------------------- ngx_alloc_chain_link
\* ngx_palloc serves the request
ngx_palloc_ok(h) == h.arena.room > 0

\* lines 63-76: the head of pool->chain as it is, else a link carved from the
\* arena, which nobody has written yet; NULL when the arena is exhausted
acl_pop(h) ==
    [h |-> [h EXCEPT !.pool_chain = h.links[h.pool_chain].next], cl |-> h.pool_chain]

acl_fresh(h) ==
    [h |-> [h EXCEPT !.links = Append(@, h.arena.junk), !.arena.room = @ - 1],
     cl |-> Len(h.links) + 1]

ngx_alloc_chain_link(h) ==
    IF h.pool_chain # NULL THEN acl_pop(h)
    ELSE IF ngx_palloc_ok(h) THEN acl_fresh(h)
    ELSE [h |-> h, cl |-> NULL]

\* *ll = v, where ll is &chain (no link) or &cl->next
SetNext(h, ll, v) ==
    IF ll = NULL THEN [h EXCEPT !.chain = v] ELSE [h EXCEPT !.links[ll].next = v]

\* ---------------------------------------------------------------- ngx_chain_add_copy
\* the longest chains handed to ngx_chain_add_copy
MaxCopyLen == 2
\* the most allocations the arena serves during ngx_chain_add_copy
MaxCopyRoom == 2

\* lines 154-159: ll ends at the next field of the last link of *chain
ac_tail_head(h) == NULL
ac_tail(h) ==
    LET c == ChainOf(h, h.chain)
    IN  IF c = <<>> THEN NULL ELSE c[Len(c)]

\* lines 164-167: the allocation failed
ac_error_dangling(h, ll) == [h |-> h, ret |-> "NGX_ERROR"]
ac_error(h, ll) == [h |-> SetNext(h, ll, NULL), ret |-> "NGX_ERROR"]

\* lines 169-170: the new link takes the buffer of the source link and goes on the chain
ac_append(h, ll, cl, src) ==
    SetNext([h EXCEPT !.links[cl].buf = h.links[src].buf], ll, cl)

\* lines 162-177
RECURSIVE ac_loop(_, _, _)
ac_loop(h, ll, src) ==
    IF src = NULL THEN [h |-> SetNext(h, ll, NULL), ret |-> "NGX_OK"]
    ELSE LET a == ngx_alloc_chain_link(h)
         IN  IF a.cl = NULL THEN ac_error(a.h, ll)
             ELSE LET h2 == ac_append(a.h, ll, a.cl, src)
                  IN  ac_loop(h2, a.cl, h2.links[src].next)

ngx_chain_add_copy(h) == ac_loop(h, ac_tail(h), h.in)

\* what an unwritten chain link may hold: NULL, or the address of any buffer or
\* link in use, or of the link itself
Junk(nb, nl) == [buf : 0..nb, next : 0..(nl + 1)]

InitAddCopy ==
    \E nd \in 0..MaxCopyLen, ns \in 0..MaxCopyLen, np \in 0..MaxFree,
       room \in 0..MaxCopyRoom :
    \E junk \in Junk(nd + ns + np, nd + ns + np) :
        /\ bufs = [i \in 1..nd |-> Mem(1)] \o [i \in 1..ns |-> File(1)]
                    \o [i \in 1..np |-> MemDrained(TagU)]
        /\ links = Linked(nd + ns, nd) \o Extra(nd + ns, np)
        /\ chain = IF nd > 0 THEN 1 ELSE NULL
        /\ in = IF ns > 0 THEN nd + 1 ELSE NULL
        /\ pool_chain = IF np > 0 THEN nd + ns + 1 ELSE NULL
        /\ arena = [room |-> room, brk |-> 0, junk |-> junk]
        /\ busy = NULL /\ out = NULL /\ free = NULL
        /\ pc = "add_copy"
        /\ call = NoCall
        /\ list = NoList

AddCopy ==
    /\ pc = "add_copy"
    /\ LET r == ngx_chain_add_copy(Heap)
       IN  /\ Store(r.h)
           /\ call' = [op |-> "add_copy", pre |-> Heap, ret |-> r.ret]
    /\ pc' = "done"

SpecAddCopy == InitAddCopy /\ [][AddCopy]_vars

\* ---------------------------------------------------------------- ngx_create_chain_of_bufs
\* the most buffers asked of ngx_create_chain_of_bufs (bufs->num)
MaxNum == 3
\* the largest buffer size asked of ngx_create_chain_of_bufs (bufs->size)
MaxSize == 2
\* the longest pool->chain ngx_create_chain_of_bufs starts with
MaxPool == 2
\* the most allocations the arena serves during ngx_create_chain_of_bufs
MaxCreateRoom == 7

\* lines 102-125: a zeroed header for the size bytes at p
cb_buf_long(p, size) ==
    [ngx_calloc_buf EXCEPT !.pos = p, !.last = p, !.temporary = TRUE,
                           !.start = p, !.end = p + size + 1]
cb_buf(p, size) ==
    [ngx_calloc_buf EXCEPT !.pos = p, !.last = p, !.temporary = TRUE,
                           !.start = p, !.end = p + size]

\* lines 99-142: head is the local chain, ll the link whose next field is *ll,
\* built the links put on the chain so far
RECURSIVE cb_loop(_, _, _, _, _, _, _, _)
cb_loop(h, head, ll, i, num, size, p, built) ==
    IF i >= num
    THEN [h |-> IF ll = NULL THEN h ELSE [h EXCEPT !.links[ll].next = NULL],
          ret |-> IF ll = NULL THEN NULL ELSE head, built |-> built]
    ELSE IF ~ngx_palloc_ok(h) THEN [h |-> h, ret |-> NULL, built |-> built]
    ELSE LET hb == [h EXCEPT !.bufs = Append(@, cb_buf(p, size)), !.arena.room = @ - 1]
             b == Len(hb.bufs)
             a == ngx_alloc_chain_link(hb)
         IN  IF a.cl = NULL THEN [h |-> a.h, ret |-> NULL, built |-> built]
             ELSE LET h1 == [a.h EXCEPT !.links[a.cl].buf = b]
                      h2 == IF ll = NULL THEN h1 ELSE [h1 EXCEPT !.links[ll].next = a.cl]
                  IN  cb_loop(h2, IF ll = NULL THEN a.cl ELSE head, a.cl, i + 1,
                              num, size, p + size, Append(built, a.cl))

\* lines 91-94, then the loop
ngx_create_chain_of_bufs(h, num, size) ==
    IF ~ngx_palloc_ok(h) THEN [h |-> h, ret |-> NULL, built |-> <<>>]
    ELSE cb_loop([h EXCEPT !.arena.room = @ - 1, !.arena.brk = @ + num * size],
                 NULL, NULL, 0, num, size, h.arena.brk, <<>>)

InitCreate ==
    \E np \in 0..MaxPool, room \in 0..MaxCreateRoom, brk \in {0, 3} :
    \E junk \in Junk(np, np) :
        /\ bufs = [i \in 1..np |-> MemDrained(TagU)]
        /\ links = Extra(0, np)
        /\ pool_chain = IF np > 0 THEN 1 ELSE NULL
        /\ arena = [room |-> room, brk |-> brk, junk |-> junk]
        /\ chain = NULL /\ in = NULL /\ busy = NULL /\ out = NULL /\ free = NULL
        /\ pc = "create_chain_of_bufs"
        /\ call = NoCall
        /\ list = NoList

CreateChainOfBufs ==
    /\ pc = "create_chain_of_bufs"
    /\ \E num \in 1..MaxNum, size \in 1..MaxSize :
        LET r == ngx_create_chain_of_bufs(Heap, num, size)
        IN  /\ Store([r.h EXCEPT !.chain = r.ret])
            /\ call' = [op |-> "create_chain_of_bufs", pre |-> Heap, num |-> num,
                        size |-> size, ret |-> r.ret, built |-> r.built]
    /\ pc' = "done"

SpecCreate == InitCreate /\ [][CreateChainOfBufs]_vars

\* ---------------------------------------------------------------- ngx_alloc_chain_link, called alone
\* the most allocations the arena serves when ngx_alloc_chain_link is called alone
MaxAllocRoom == 1

\* links in use on busy, links on pool->chain, and an arena
InitAlloc ==
    \E nu \in 0..MaxPool, np \in 0..MaxPool, room \in 0..MaxAllocRoom :
    \E junk \in Junk(nu + np, nu + np) :
        /\ bufs = [i \in 1..(nu + np) |-> MemDrained(TagU)]
        /\ links = Linked(nu, nu) \o Extra(nu, np)
        /\ busy = IF nu > 0 THEN 1 ELSE NULL
        /\ pool_chain = IF np > 0 THEN nu + 1 ELSE NULL
        /\ arena = [room |-> room, brk |-> 0, junk |-> junk]
        /\ chain = NULL /\ in = NULL /\ out = NULL /\ free = NULL
        /\ pc = "alloc_chain_link"
        /\ call = NoCall
        /\ list = NoList

\* lines 249-250: the head of busy is given back to the pool
FreeChain ==
    /\ pc = "alloc_chain_link"
    /\ busy # NULL
    /\ Store(uc_discard(Heap, busy))
    /\ call' = [op |-> "free_chain", pre |-> Heap, cl |-> busy]
    /\ pc' = pc

AllocChainLink ==
    /\ pc = "alloc_chain_link"
    /\ LET r == ngx_alloc_chain_link(Heap)
       IN  /\ Store(r.h)
           /\ call' = [op |-> "alloc_chain_link", pre |-> Heap, ret |-> r.cl,
                       freed |-> IF call.op = "free_chain" THEN call.cl ELSE NULL]
    /\ pc' = "done"

SpecAlloc == InitAlloc /\ [][FreeChain \/ AllocChainLink]_vars

\* ---------------------------------------------------------------- ngx_list_create, ngx_list_push
\* the largest capacity of a part (n of ngx_list_create)
MaxNalloc == 3
\* the largest element size (size of ngx_list_create)
MaxEltSize == 2
\* the most allocations the arena serves to a list
MaxListRoom == 6
\* the most calls of ngx_list_push on one list
MaxPush == 7

\* the address of the first data block of an arena that holds a list: 0 is NULL
ListBase == 1

\* ngx_list_init of ngx_list.h: the first part is part of the list header, its
\* elts are n * size bytes of the arena
ngx_list_init(h, n, size) ==
    IF ~ngx_palloc_ok(h) THEN [h |-> h, ok |-> FALSE]
    ELSE [h |-> [h EXCEPT !.arena.room = @ - 1,
                          !.arena.brk = @ + n * size,
                          !.list = [nalloc |-> n, size |-> size, last |-> 1,
                                    parts |-> <<[elts |-> h.arena.brk, nelts |-> 0,
                                                 next |-> NULL]>>]],
          ok |-> TRUE]

\* lines 13-29: the header is allocated, then initialised
ngx_list_create(h, n, size) ==
    IF ~ngx_palloc_ok(h) THEN [h |-> h, ok |-> FALSE]
    ELSE ngx_list_init([h EXCEPT !.arena.room = @ - 1], n, size)

\* line 42: the last part has no slot left
lp_full_early(nelts, nalloc) == nelts + 1 >= nalloc
lp_full(nelts, nalloc) == nelts = nalloc

\* lines 46-61: a part and its elts are allocated and the part becomes the last
\* one; when the elts cannot be had the part stays in the arena, unreachable
lp_grow(h) ==
    IF ~ngx_palloc_ok(h) THEN [h |-> h, last |-> NULL]
    ELSE LET h1 == [h EXCEPT !.arena.room = @ - 1]
         IN  IF ~ngx_palloc_ok(h1) THEN [h |-> h1, last |-> NULL]
             ELSE LET new == Len(h1.list.parts) + 1
                      part == [elts |-> h1.arena.brk, nelts |-> 0, next |-> NULL]
                  IN  [h |-> [h1 EXCEPT !.arena.room = @ - 1,
                                        !.arena.brk = @ + h1.list.nalloc * h1.list.size,
                                        !.list.parts = Append([@ EXCEPT ![h1.list.last].next = new],
                                                              part),
                                        !.list.last = new],
                       last |-> new]

\* lines 33-70: the address of the slot, NULL when a part was needed and not had
ngx_list_push(h) ==
    LET g == IF lp_full(h.list.parts[h.list.last].nelts, h.list.nalloc)
             THEN lp_grow(h)
             ELSE [h |-> h, last |-> h.list.last]
    IN  IF g.last = NULL THEN [h |-> g.h, elt |-> NULL]
        ELSE [h |-> [g.h EXCEPT !.list.parts[g.last].nelts = @ + 1],
              elt |-> g.h.list.parts[g.last].elts
                        + g.h.list.size * g.h.list.parts[g.last].nelts]

\* a pool before a list is created in it
InitList ==
    \E room \in 0..MaxListRoom :
        /\ bufs = <<>> /\ links = <<>>
        /\ pool_chain = NULL /\ free = NULL /\ busy = NULL /\ out = NULL
        /\ chain = NULL /\ in = NULL
        /\ arena = [room |-> room, brk |-> ListBase, junk |-> [buf |-> NULL, next |-> NULL]]
        /\ list = NoList
        /\ pc = "list_create"
        /\ call = NoCall

ListCreate ==
    /\ pc = "list_create"
    /\ \E n \in 1..MaxNalloc, size \in 1..MaxEltSize :
        LET r == ngx_list_create(Heap, n, size)
        IN  /\ Store(r.h)
            /\ call' = [op |-> "list_create", pre |-> Heap, ok |-> r.ok, ret |-> NULL,
                        slots |-> <<>>, pushes |-> 0]
            /\ pc' = IF r.ok THEN "list_push" ELSE "done"

\* slots holds the addresses the pushes returned, in order
ListPush ==
    /\ pc = "list_push"
    /\ call.pushes < MaxPush
    /\ LET r == ngx_list_push(Heap)
       IN  /\ Store(r.h)
           /\ call' = [op |-> "list_push", pre |-> Heap, ok |-> r.elt # NULL,
                       ret |-> r.elt,
                       slots |-> IF r.elt = NULL THEN call.slots
                                 ELSE Append(call.slots, r.elt),
                       pushes |-> call.pushes + 1]
    /\ pc' = pc

SpecList == InitList /\ [][ListCreate \/ ListPush]_vars

\* ---------------------------------------------------------------- ngx_chain_get_free_buf and the recycling loop
\* the most allocations the arena serves to the recycling loop
MaxRecycleRoom == 4
\* the largest byte count the writer reports in the recycling loop
MaxRecycleSent == 2

\* lines 190-194: the head of free leaves free, alone
gfb_pop_linked(h) ==
    [h |-> [h EXCEPT !.free = h.links[h.free].next], cl |-> h.free]
gfb_pop(h) ==
    [h |-> [h EXCEPT !.free = h.links[h.free].next, !.links[h.free].next = NULL],
     cl |-> h.free]

\* lines 198-210: a link from the pool with a zeroed buffer header; when the
\* header cannot be had the link, its buf set to NULL at line 203, is lost to
\* every chain
gfb_fresh(h) ==
    LET a == ngx_alloc_chain_link(h)
    IN  IF a.cl = NULL THEN [h |-> a.h, cl |-> NULL]
        ELSE IF ~ngx_palloc_ok(a.h)
        THEN [h |-> [a.h EXCEPT !.links[a.cl].buf = NULL], cl |-> NULL]
        ELSE LET b == Len(a.h.bufs) + 1
             IN  [h |-> [a.h EXCEPT !.bufs = Append(@, ngx_calloc_buf),
                                    !.arena.room = @ - 1,
                                    !.links[a.cl] = [buf |-> b, next |-> NULL]],
                  cl |-> a.cl]

\* lines 184-211
ngx_chain_get_free_buf(h) ==
    IF h.free # NULL THEN gfb_pop(h) ELSE gfb_fresh(h)

\* what a producer puts into the buffer it was given
Fills(tag) == {MemPending(tag), FilePending(tag), Flush(tag)}

\* the caller of ngx_chain_get_free_buf links cl behind the last link of out
AppendOut(h, cl) ==
    IF h.out = NULL THEN [h EXCEPT !.out = cl]
    ELSE LET c == ChainOf(h, h.out)
         IN  [h EXCEPT !.links[c[Len(c)]].next = cl]

\* a pool and a consumer with nothing produced yet
InitRecycle ==
    \E room \in 0..MaxRecycleRoom :
    \E junk \in Junk(0, 1) :
        /\ bufs = <<>> /\ links = <<>>
        /\ pool_chain = NULL /\ free = NULL /\ busy = NULL /\ out = NULL
        /\ chain = NULL /\ in = NULL
        /\ arena = [room |-> room, brk |-> 0, junk |-> junk]
        /\ list = NoList
        /\ pc = "recycle"
        /\ call = NoCall

\* the producer gets a buffer, fills it and appends its link to out; a buffer
\* taken from free stays the consumer's, a new one is the consumer's or another
\* owner's
GetFreeBuf ==
    /\ pc = "recycle"
    /\ LET r == ngx_chain_get_free_buf(Heap)
       IN  IF r.cl = NULL
           THEN /\ Store(r.h)
                /\ call' = [op |-> "get_free_buf", pre |-> Heap, ret |-> NULL]
           ELSE \E tag \in IF free # NULL THEN {TagT} ELSE Tags :
                \E b \in Fills(tag) :
                    /\ Store(AppendOut([r.h EXCEPT !.bufs[r.h.links[r.cl].buf] = b], r.cl))
                    /\ call' = [op |-> "get_free_buf", pre |-> Heap, ret |-> r.cl]
    /\ pc' = pc

\* the writer reports sent bytes of busy
RecycleSent ==
    /\ pc = "recycle"
    /\ busy # NULL
    /\ \E sent \in 0..MaxRecycleSent :
        LET r == ngx_chain_update_sent(Heap, busy, sent)
        IN  /\ Store(r.h)
            /\ call' = [op |-> "update_sent", pre |-> Heap, sent |-> sent, ret |-> r.ret]
    /\ pc' = pc

\* the consumer folds out into busy and reclaims what is drained
RecycleChains ==
    /\ pc = "recycle"
    /\ Store(ngx_chain_update_chains(Heap, TagT))
    /\ call' = [op |-> "update_chains", pre |-> Heap, tag |-> TagT]
    /\ pc' = pc

SpecRecycle == InitRecycle /\ [][GetFreeBuf \/ RecycleSent \/ RecycleChains]_vars

\* ---------------------------------------------------------------- the writer loop
\* the longest busy chain the writer loop starts with
MaxWriterLen == 2
\* the largest byte count the writer reports in one round
MaxWriterSent == 2
\* the rounds of the writer loop that are counted
MaxWriterRounds == 2

\* the bytes left on the chain that starts at cl
RECURSIVE SizeOf(_, _)
SizeOf(h, c) ==
    IF c = <<>> THEN 0 ELSE ngx_buf_size(BufOf(h, Head(c))) + SizeOf(h, Tail(c))

ChainSize(h, cl) == SizeOf(h, ChainOf(h, cl))

WriterBufs ==
    {Mem(1), Mem(2), File(3), Both(3, 1), MemPending(TagU), MemDrained(TagT),
     Flush(TagT)}

\* busy as ngx_chain_update_chains leaves it: empty, or led by a buffer that is
\* not drained; given is the chain the loop starts with, rounds the rounds made,
\* counted up to MaxWriterRounds
InitWriter ==
    \E n \in 0..MaxWriterLen :
    \E bs \in [1..n -> WriterBufs] :
        /\ n > 0 => ngx_buf_size(bs[1]) # 0
        /\ bufs = bs
        /\ links = Linked(n, n)
        /\ busy = IF n > 0 THEN 1 ELSE NULL
        /\ in = NULL /\ out = NULL /\ free = NULL /\ pool_chain = NULL /\ chain = NULL
        /\ arena = NoArena
        /\ list = NoList
        /\ pc = IF n > 0 THEN "writer_send" ELSE "writer_done"
        /\ call = [op |-> "writer", given |-> [i \in 1..n |-> i], rounds |-> 0,
                   sent |-> 0, total |-> 0]

\* the writer reports what it sent of busy
WriterSend ==
    /\ pc = "writer_send"
    /\ \E sent \in 1..MaxWriterSent :
       \E r \in {ngx_chain_update_sent(Heap, busy, sent)} :
        /\ Store(r.h)
        /\ call' = [call EXCEPT !.op = "writer_send", !.sent = sent,
                                !.total = ChainSize(Heap, busy)]
    /\ pc' = "writer_recycle"

\* the consumer reclaims what is drained, nothing new was produced; the loop goes
\* on while busy holds bytes to send
WriterRecycle ==
    /\ pc = "writer_recycle"
    /\ \E h \in {ngx_chain_update_chains(Heap, TagT)} :
           /\ Store(h)
           /\ pc' = IF ChainSize(h, h.busy) > 0 THEN "writer_send" ELSE "writer_done"
    /\ call' = [call EXCEPT !.op = "writer_recycle",
                            !.rounds = IF @ < MaxWriterRounds THEN @ + 1 ELSE @]

\* the loop is sequential code: a step that can be taken is taken
SpecWriter ==
    /\ InitWriter
    /\ [][WriterSend \/ WriterRecycle]_vars
    /\ WF_vars(WriterSend)
    /\ WF_vars(WriterRecycle)

\* ---------------------------------------------------------------- ngx_create_temp_buf and the life of a buffer
\* the largest size asked of ngx_create_temp_buf
MaxTempSize == 2
\* the most allocations the arena serves while buffers are made and sent
MaxCursorRoom == 4
\* the largest byte count the writer reports for the buffers made
MaxCursorSent == 2

\* lines 14-48: a zeroed header, then size bytes of the arena behind it; when the
\* bytes cannot be had the zeroed header stays in the arena
ngx_create_temp_buf(h, size) ==
    IF ~ngx_palloc_ok(h) THEN [h |-> h, b |-> NULL]
    ELSE LET h1 == [h EXCEPT !.bufs = Append(@, ngx_calloc_buf), !.arena.room = @ - 1]
             b == Len(h1.bufs)
             start == h1.arena.brk
         IN  IF ~ngx_palloc_ok(h1) THEN [h |-> h1, b |-> NULL]
             ELSE [h |-> [h1 EXCEPT !.arena.room = @ - 1,
                                    !.arena.brk = @ + size,
                                    !.bufs[b] = [@ EXCEPT !.start = start, !.pos = start,
                                                          !.last = start,
                                                          !.end = start + size,
                                                          !.temporary = TRUE]],
                   b |-> b]

\* the file ranges a producer gives a buffer
FileRanges == {<<0, 0>>, <<0, 1>>, <<1, 2>>}

\* what a producer may do to a buffer it owns: append w bytes within the room
\* left, take the consumer's tag, and say which bytes of a file the buffer holds
Written(b, w, tag) == [b EXCEPT !.last = @ + w, !.tag = tag]

FileBacked(b, r) ==
    [b EXCEPT !.in_file = TRUE, !.fd = 1, !.file_pos = r[1], !.file_last = r[2]]

\* a pool with nothing made yet; data addresses start above NULL
InitCursors ==
    \E room \in 0..MaxCursorRoom, brk \in {1, 3} :
    \E junk \in Junk(0, 1) :
        /\ bufs = <<>> /\ links = <<>>
        /\ pool_chain = NULL /\ free = NULL /\ busy = NULL /\ out = NULL
        /\ chain = NULL /\ in = NULL
        /\ arena = [room |-> room, brk |-> brk, junk |-> junk]
        /\ list = NoList
        /\ pc = "cursors"
        /\ call = NoCall

CreateTempBuf ==
    /\ pc = "cursors"
    /\ \E size \in 1..MaxTempSize :
       \E r \in {ngx_create_temp_buf(Heap, size)} :
        /\ Store(r.h)
        /\ call' = [op |-> "create_temp_buf", size |-> size, ret |-> r.b]
    /\ pc' = pc

\* a chain of buffers is made when the last one made was handed on
CursorsCreateChain ==
    /\ pc = "cursors"
    /\ chain = NULL
    /\ \E num \in 1..MaxCopyLen, size \in 1..MaxTempSize :
       \E r \in {ngx_create_chain_of_bufs(Heap, num, size)} :
        /\ Store([r.h EXCEPT !.chain = r.ret])
        /\ call' = [op |-> "create_chain_of_bufs", size |-> size, ret |-> r.ret]
    /\ pc' = pc

\* the producer writes into a buffer of the chain it holds
ProducerWrite ==
    /\ pc = "cursors"
    /\ \E cl \in Range(ChainOf(Heap, chain)) :
       \E w \in 0..(BufOf(Heap, cl).end - BufOf(Heap, cl).last) :
       \E b \in {Written(BufOf(Heap, cl), w, TagT)} :
       \E nb \in {b} \cup {FileBacked(b, r) : r \in FileRanges} :
        /\ bufs' = [bufs EXCEPT ![links[cl].buf] = nb]
        /\ call' = [op |-> "write", size |-> w, ret |-> cl]
    /\ UNCHANGED <<links, pool_chain, arena, free, busy, out, chain, in, list>>
    /\ pc' = pc

\* the chain is handed on as out: ngx_chain_update_chains folds it into busy and
\* reclaims what is drained
CursorsChains ==
    /\ pc = "cursors"
    /\ \E h \in {ngx_chain_update_chains([Heap EXCEPT !.out = chain, !.chain = NULL],
                                          TagT)} :
        Store(h)
    /\ call' = [op |-> "update_chains", size |-> 0, ret |-> NULL]
    /\ pc' = pc

\* the writer reports sent bytes of busy
CursorsSent ==
    /\ pc = "cursors"
    /\ busy # NULL
    /\ \E sent \in 0..MaxCursorSent :
       \E r \in {ngx_chain_update_sent(Heap, busy, sent)} :
        /\ Store(r.h)
        /\ call' = [op |-> "update_sent", size |-> sent, ret |-> r.ret]
    /\ pc' = pc

SpecCursors ==
    InitCursors /\ [][CreateTempBuf \/ CursorsCreateChain \/ ProducerWrite
                      \/ CursorsChains \/ CursorsSent]_vars

\* ---------------------------------------------------------------- all calls
Init ==
    \/ InitChains \/ InitSent \/ InitCoalesce \/ InitAddCopy \/ InitCreate
    \/ InitAlloc \/ InitList \/ InitRecycle \/ InitWriter \/ InitCursors

Next ==
    \/ UpdateChains \/ UpdateSent \/ CoalesceFile \/ AddCopy \/ CreateChainOfBufs
    \/ FreeChain \/ AllocChainLink \/ ListCreate \/ ListPush
    \/ GetFreeBuf \/ RecycleSent \/ RecycleChains
    \/ WriterSend \/ WriterRecycle
    \/ CreateTempBuf \/ CursorsCreateChain \/ ProducerWrite \/ CursorsChains
    \/ CursorsSent

Spec == Init /\ [][Next]_vars

\* ---------------------------------------------------------------- update_chains: properties
Updated == pc = "done" /\ call.op = "update_chains"

\* busy followed by out, as the call found them
Submitted == ChainOf(call.pre, call.pre.busy) \o ChainOf(call.pre, call.pre.out)

Drained(h, cl) == ngx_buf_size(BufOf(h, cl)) = 0

\* how many links at the front of s hold a drained buffer
RECURSIVE DrainedPrefix(_, _)
DrainedPrefix(h, s) ==
    IF s = <<>> \/ ~Drained(h, Head(s)) THEN 0
    ELSE 1 + DrainedPrefix(h, Tail(s))

DrainedLen == DrainedPrefix(call.pre, Submitted)

Select(s, P(_)) == SelectSeq(s, P)

OwnLink(cl) == BufOf(call.pre, cl).tag = call.tag
ForeignLink(cl) == BufOf(call.pre, cl).tag # call.tag

DrainedLinks == SubSeq(Submitted, 1, DrainedLen)

SameFileCursors(a, b) == a.file_pos = b.file_pos /\ a.file_last = b.file_last

SameCursors(a, b) ==
    /\ a.pos = b.pos /\ a.last = b.last
    /\ SameFileCursors(a, b)

\* C1: when the first k links of busy followed by out hold drained buffers that all
\* carry the call's tag and link k+1 is absent or not drained, then after
\* ngx_chain_update_chains free is link k, ..., link 1 followed by the old free chain,
\* each of the k buffers has pos = last = start and its file cursors unchanged, and
\* busy starts at link k+1 (NULL when there is none).
C1_ReclaimedInReverse ==
    (Updated /\ \A i \in 1..DrainedLen : OwnLink(Submitted[i])) =>
        /\ ChainOf(Heap, free) = Rev(DrainedLinks) \o ChainOf(call.pre, call.pre.free)
        /\ NullTerminated(Heap, free)
        /\ \A i \in 1..DrainedLen :
              LET b == BufOf(Heap, Submitted[i])
              IN  /\ b.pos = b.start /\ b.last = b.start
                  /\ SameFileCursors(b, BufOf(call.pre, Submitted[i]))
        /\ busy = IF DrainedLen < Len(Submitted) THEN Submitted[DrainedLen + 1] ELSE NULL

\* two drained buffers of the caller in front of one that is not drained, the first
\* of them with memory and file cursors off their starts, and a free chain that
\* was not empty
C1_Witness ==
    /\ Updated
    /\ DrainedLen = 2
    /\ Len(Submitted) = 3
    /\ \A i \in 1..DrainedLen : OwnLink(Submitted[i])
    /\ BufOf(call.pre, Submitted[1]) = BothDrained(TagT)
    /\ call.pre.free # NULL
    /\ Len(ChainOf(Heap, free)) = 3

\* C2: a drained link whose buffer carries another tag leaves busy for the head of
\* pool->chain, never for free, and its buffer keeps every cursor; the loop goes on
\* behind it, so that busy = [A(T), B(U), C(T)], all drained, ends with
\* free = [C, A], busy = [] and B on pool->chain.
C2_ForeignToPool ==
    Updated =>
        /\ ChainOf(Heap, pool_chain) =
              Rev(Select(DrainedLinks, ForeignLink)) \o ChainOf(call.pre, call.pre.pool_chain)
        /\ ChainOf(Heap, free) =
              Rev(Select(DrainedLinks, OwnLink)) \o ChainOf(call.pre, call.pre.free)
        /\ \A i \in 1..DrainedLen :
              ForeignLink(Submitted[i]) =>
                /\ Submitted[i] \notin Range(ChainOf(Heap, free))
                /\ Submitted[i] \notin Range(ChainOf(Heap, busy))
                /\ BufOf(Heap, Submitted[i]) = BufOf(call.pre, Submitted[i])

\* busy = [A(T), B(U), C(T)], all drained, and a call with tag T
C2_Witness ==
    /\ Updated
    /\ call.tag = TagT
    /\ call.pre.out = NULL
    /\ Len(Submitted) = 3
    /\ BufOf(call.pre, Submitted[1]) = MemDrained(TagT)
    /\ BufOf(call.pre, Submitted[2]) = MemDrained(TagU)
    /\ BufOf(call.pre, Submitted[3]) = BothDrained(TagT)
    /\ call.pre.free = NULL
    /\ ChainOf(Heap, free) = <<Submitted[3], Submitted[1]>>
    /\ busy = NULL
    /\ pool_chain = Submitted[2]

\* C3: after ngx_chain_update_chains out is empty and busy is the part of old busy
\* followed by old out that starts at the first buffer that is not drained, in the
\* old order; a drained link behind that buffer stays where it is, untouched.
C3_BusyIsUndrainedSuffix ==
    Updated =>
        /\ out = NULL
        /\ ChainOf(Heap, busy) = SubSeq(Submitted, DrainedLen + 1, Len(Submitted))
        /\ NullTerminated(Heap, busy)
        /\ \A i \in (DrainedLen + 1)..Len(Submitted) :
              /\ Submitted[i] \notin Range(ChainOf(Heap, free))
              /\ Submitted[i] \notin Range(ChainOf(Heap, pool_chain))
              /\ BufOf(Heap, Submitted[i]) = BufOf(call.pre, Submitted[i])

\* busy and out both held links, a drained buffer led, and a drained buffer sat
\* behind one that was not drained
C3_Witness ==
    /\ Updated
    /\ call.pre.busy # NULL
    /\ call.pre.out # NULL
    /\ DrainedLen = 1
    /\ Len(Submitted) = 3
    /\ Drained(call.pre, Submitted[3])
    /\ ChainOf(Heap, busy) = <<Submitted[2], Submitted[3]>>


\* ---------------------------------------------------------------- update_sent: properties
SentDone == pc = "done" /\ call.op = "update_sent"

\* the chain the call was given
Given == ChainOf(call.pre, call.pre.in)

SizeBefore(i) == ngx_buf_size(BufOf(call.pre, Given[i]))
SizeAfter(i) == ngx_buf_size(BufOf(Heap, Given[i]))

RECURSIVE SumTo(_, _)
SumTo(S(_), n) == IF n = 0 THEN 0 ELSE S(n) + SumTo(S, n - 1)

\* the first index whose buffers up to it hold more than sent bytes
FirstPast == CHOOSE k \in 1..Len(Given) :
                /\ SumTo(SizeBefore, k) > call.sent
                /\ \A j \in 1..(k - 1) : SumTo(SizeBefore, j) <= call.sent

PartlySent ==
    /\ SentDone
    /\ \A i \in 1..Len(Given) : ~ngx_buf_special(BufOf(call.pre, Given[i]))
    /\ 0 < call.sent
    /\ call.sent < SumTo(SizeBefore, Len(Given))

\* what the claims about the cursors share: links 1..r-1 were drained by the call,
\* link k advanced by what was left of sent, every other buffer and every link kept,
\* link r returned
SentOutcome(r, k) ==
    LET d == call.sent - SumTo(SizeBefore, k - 1)
        old(i) == BufOf(call.pre, Given[i])
        new(i) == BufOf(Heap, Given[i])
    IN  /\ call.ret = Given[r]
        /\ links = call.pre.links
        /\ \A i \in 1..(r - 1) :
              new(i) = [old(i) EXCEPT
                    !.pos = IF ngx_buf_in_memory(old(i)) THEN old(i).last ELSE @,
                    !.file_pos = IF old(i).in_file THEN old(i).file_last ELSE @]
        /\ \A i \in 1..(k - 1) : SizeAfter(i) = 0
        /\ new(k) = [old(k) EXCEPT
                    !.pos = IF ngx_buf_in_memory(old(k)) THEN @ + d ELSE @,
                    !.file_pos = IF old(k).in_file THEN @ + d ELSE @]
        /\ SizeAfter(k) = SizeBefore(k) - d
        /\ SizeAfter(k) > 0
        /\ \A i \in r..Len(Given) : i # k => new(i) = old(i)
        /\ SumTo(SizeAfter, Len(Given)) = SumTo(SizeBefore, Len(Given)) - call.sent

\* C4 as claimed: on a chain of non-special buffers of sizes s1..sn and
\* 0 < sent < s1+...+sn, with k the first index such that s1+...+sk > sent:
\* buffers 1..k-1 end drained, buffer k has the cursors of its backings advanced by
\* sent - (s1+...+s(k-1)) and is not drained, buffers k+1..n are unchanged, link k is
\* returned, and the chain's remaining size went down by sent.
C4_Original == PartlySent => SentOutcome(FirstPast, FirstPast)

\* the first link the walk reaches with nothing left of sent, or with less left
\* than the buffer holds
FirstUnsent == CHOOSE r \in 1..Len(Given) :
                /\ SumTo(SizeBefore, r - 1) = call.sent \/ SumTo(SizeBefore, r) > call.sent
                /\ \A j \in 1..(r - 1) :
                      SumTo(SizeBefore, j - 1) # call.sent /\ SumTo(SizeBefore, j) <= call.sent

\* C4 (amended): as claimed, except that the returned link is the first link r <= k
\* with s1+...+s(r-1) = sent: buffers of size 0 that follow the last sent byte are
\* not walked over, they and buffer k are left as they were. With every size > 0,
\* r = k.
C4_SentAccounting ==
    PartlySent =>
        /\ FirstUnsent <= FirstPast
        /\ \A i \in FirstUnsent..(FirstPast - 1) : SizeBefore(i) = 0
        /\ (\A i \in 1..Len(Given) : SizeBefore(i) > 0) => FirstUnsent = FirstPast
        /\ SentOutcome(FirstUnsent, FirstPast)

\* sizes [1, 3, 2] and sent = 3: the first buffer drained, the second advanced by 2
\* of 3, the third untouched
C4_Witness ==
    /\ PartlySent
    /\ Len(Given) = 3
    /\ BufOf(call.pre, Given[1]) = Mem(1)
    /\ BufOf(call.pre, Given[2]) = File(3)
    /\ BufOf(call.pre, Given[3]) = Mem(2)
    /\ call.sent = 3
    /\ BufOf(Heap, Given[2]).file_pos = 3
    /\ call.ret = Given[2]

\* ---------------------------------------------------------------- coalesce_file: properties
Coalesced == pc = "done" /\ call.op = "coalesce_file"

FileSize(i) ==
    BufOf(call.pre, Given[i]).file_last - BufOf(call.pre, Given[i]).file_pos

\* link i goes on from link i-1: a file buffer of the head's file that starts where
\* link i-1 ends, met with total below the limit
Joins(i) ==
    /\ BufOf(call.pre, Given[i]).in_file
    /\ BufOf(call.pre, Given[i]).fd = BufOf(call.pre, Given[1]).fd
    /\ BufOf(call.pre, Given[i]).file_pos = BufOf(call.pre, Given[i - 1]).file_last
    /\ SumTo(FileSize, i - 1) < call.limit

\* the links the walk looks at: the longest prefix in which every link joins
Reached == CHOOSE m \in 1..Len(Given) :
              /\ \A i \in 2..m : Joins(i)
              /\ m = Len(Given) \/ ~Joins(m + 1)

\* what of the limit is left when the walk is at its last link
Rest == call.limit - SumTo(FileSize, Reached - 1)

Truncated == Coalesced /\ FileSize(Reached) > Rest

\* what the last link of the walk added to the total
Contribution == call.ret - SumTo(FileSize, Reached - 1)

\* C5: the total returned by ngx_chain_coalesce_file never exceeds limit. The
\* code breaks it: bytes 2..5 with limit 1 and pages of 4 have the end 3 rounded
\* up to 4 (lines 285-286) and the total returned is 2.
C5_Original == Coalesced => call.ret <= call.limit

\* C6: the end file_pos + (limit - total) of a truncated segment is rounded down
\* to a page boundary when the boundary lies within the segment, the rounded size
\* is used only if it is smaller, and the segment adds at most limit - total. The
\* code breaks it: cf_align rounds the end up, so a second segment of bytes 2..5
\* cut to 1 byte by limit 3 adds 2 bytes with pages of 4.
C6_Original ==
    Truncated =>
        LET b == BufOf(call.pre, Given[Reached])
            end == b.file_pos + Rest
            down == end - (end % call.pagesize)
        IN  /\ Contribution <= Rest
            /\ Contribution =
                  IF down >= b.file_pos /\ down - b.file_pos < Rest
                  THEN down - b.file_pos ELSE Rest

\* C7: when no segment exceeds what is left of the limit, a link behind the head is
\* merged only if it is a file buffer of the head's file that starts exactly where
\* the link before it ends and total < limit; the total is the sum of the merged
\* ranges and *in is the first link not merged (NULL when there is none). When a
\* segment is truncated *in is that link. No buffer and no link is changed.
C7_MergedPrefix ==
    Coalesced =>
        /\ bufs = call.pre.bufs
        /\ links = call.pre.links
        /\ Truncated => in = Given[Reached]
        /\ ~Truncated =>
              /\ call.ret = SumTo(FileSize, Reached)
              /\ in = IF Reached < Len(Given) THEN Given[Reached + 1] ELSE NULL

\* two ranges are merged and the third link, which leaves a gap, is where *in stops
C7_Witness ==
    /\ Coalesced
    /\ ~Truncated
    /\ Len(Given) = 3
    /\ BufOf(call.pre, Given[1]) = FileRange(1, 0, 2)
    /\ BufOf(call.pre, Given[2]) = FileRange(1, 2, 5)
    /\ BufOf(call.pre, Given[3]) = FileRange(1, 3, 5)
    /\ call.ret = 5
    /\ in = Given[3]

\* ---------------------------------------------------------------- add_copy: properties
Copied == pc = "done" /\ call.op = "add_copy"

\* the destination and the source as the call found them, the destination after
Dest == ChainOf(call.pre, call.pre.chain)
Source == ChainOf(call.pre, call.pre.in)
Result == ChainOf(Heap, chain)

\* how many links ngx_alloc_chain_link could hand out: those on pool->chain and
\* those the arena had room for
Available == Len(ChainOf(call.pre, call.pre.pool_chain)) + call.pre.arena.room

NoRepeats(c) == \A i, j \in 1..Len(c) : c[i] = c[j] => i = j

\* the chain is the old destination, in place, followed by n links that are neither
\* of the destination nor of the source and carry the first n source buffers
Appended(n) ==
    /\ Len(Result) = Len(Dest) + n
    /\ NullTerminated(Heap, chain)
    /\ NoRepeats(Result)
    /\ \A i \in 1..Len(Dest) :
          /\ Result[i] = Dest[i]
          /\ links[Dest[i]].buf = call.pre.links[Dest[i]].buf
    /\ \A i \in 1..n :
          /\ Result[Len(Dest) + i] \notin Range(Dest) \cup Range(Source)
          /\ links[Result[Len(Dest) + i]].buf = call.pre.links[Source[i]].buf
    /\ Len(Result) > 0 => links[Result[Len(Result)]].next = NULL
    /\ \A i \in 1..Len(Source) : links[Source[i]] = call.pre.links[Source[i]]
    /\ bufs = call.pre.bufs

\* C8: when ngx_chain_add_copy succeeds, dest's links stay in place, followed by
\* |src| links taken from the allocator that reference src's buffers in order (the
\* same buffers, not copies), the chain ends at NULL and src's links are unchanged.
\* With an empty src no link changes; with an empty dest the chain's buffers are
\* src's buffers.
C8_AddCopy ==
    (Copied /\ call.ret = "NGX_OK") =>
        /\ Appended(Len(Source))
        /\ Source = <<>> => links = call.pre.links /\ Result = Dest
        /\ Dest = <<>> => BufsOf(Heap, chain) = BufsOf(call.pre, call.pre.in)

\* two links are appended to a chain of two, one taken from pool->chain and one
\* carved from the arena with a next field that was not NULL
C8_Witness ==
    /\ Copied
    /\ call.ret = "NGX_OK"
    /\ Len(Dest) = 2
    /\ Len(Source) = 2
    /\ call.pre.pool_chain # NULL
    /\ call.pre.arena.junk.next # NULL
    /\ Len(links) = Len(call.pre.links) + 1
    /\ Len(Result) = 4

\* C9: when the j-th allocation of ngx_chain_add_copy fails it returns NGX_ERROR
\* and *chain is dest's links followed by the j-1 links appended before, which
\* reference the first j-1 source buffers in order; the last link's next is NULL.
C9_AddCopyFailure ==
    (Copied /\ call.ret = "NGX_ERROR") =>
        /\ Available < Len(Source)
        /\ Appended(Available)

\* the second allocation fails after a link from the arena, whose next field was
\* not NULL, went behind a chain of one
C9_Witness ==
    /\ Copied
    /\ call.ret = "NGX_ERROR"
    /\ Len(Dest) = 1
    /\ Len(Source) = 2
    /\ Available = 1
    /\ call.pre.pool_chain = NULL
    /\ call.pre.arena.junk.next # NULL
    /\ Len(Result) = 2

\* ---------------------------------------------------------------- create_chain_of_bufs: properties
Created == pc = "done" /\ call.op = "create_chain_of_bufs"

\* the call gave up after it had put links on its chain
CreateFailedMidway == Created /\ call.ret = NULL /\ call.built # <<>>

\* C10: when an allocation fails part-way through ngx_create_chain_of_bufs, the
\* links built so far are a well-formed chain that ends at NULL: the last built
\* link's next is NULL, not a stale or unwritten value.
C10_PartialChainTerminated ==
    CreateFailedMidway =>
        /\ links[call.built[Len(call.built)]].next = NULL
        /\ ChainOf(Heap, call.built[1]) = call.built
        /\ NullTerminated(Heap, call.built[1])

\* the code's behaviour: every built link but the last points at the next built
\* link, and the last keeps the next field it was handed out with
C10_LastLinkKeepsStaleNext ==
    CreateFailedMidway =>
        LET last == call.built[Len(call.built)]
        IN  /\ \A i \in 1..(Len(call.built) - 1) : links[call.built[i]].next = call.built[i + 1]
            /\ links[last].next =
                  IF last <= Len(call.pre.links) THEN call.pre.links[last].next
                  ELSE call.pre.arena.junk.next

\* ---------------------------------------------------------------- alloc_chain_link: properties
Allocated == pc = "done" /\ call.op = "alloc_chain_link"

\* C11: ngx_alloc_chain_link returns the head of pool->chain and takes it off the
\* list when the list is not empty, so that the link given back last is handed out
\* next, else a link carved from the arena; either way the returned link is empty:
\* it has no buffer and no successor.
C11_AllocReturnsEmptyLink ==
    Allocated =>
        /\ call.pre.pool_chain # NULL =>
              /\ call.ret = call.pre.pool_chain
              /\ pool_chain = call.pre.links[call.ret].next
              /\ call.freed # NULL => call.ret = call.freed
        /\ (call.pre.pool_chain = NULL /\ call.pre.arena.room > 0) =>
              call.ret = Len(call.pre.links) + 1
        /\ call.ret # NULL =>
              /\ links[call.ret].buf = NULL
              /\ links[call.ret].next = NULL

\* the code's behaviour: which link is returned is as claimed, and the link holds
\* what it held on pool->chain, or what the arena's memory held
C11_LinkReturnedAsFound ==
    Allocated =>
        /\ call.pre.pool_chain # NULL =>
              /\ call.ret = call.pre.pool_chain
              /\ pool_chain = call.pre.links[call.ret].next
              /\ call.freed # NULL => call.ret = call.freed
              /\ links[call.ret] = call.pre.links[call.ret]
        /\ (call.pre.pool_chain = NULL /\ call.pre.arena.room > 0) =>
              /\ call.ret = Len(call.pre.links) + 1
              /\ links[call.ret] = call.pre.arena.junk
        /\ (call.pre.pool_chain = NULL /\ call.pre.arena.room = 0) => call.ret = NULL

\* ---------------------------------------------------------------- update_sent: what is returned
SpecialBefore(i) == ngx_buf_special(BufOf(call.pre, Given[i]))

\* the buffer of link i holds nothing more to send after the call
ConsumedAfter(i) == SpecialBefore(i) \/ SizeAfter(i) = 0

\* the index of the returned link on the given chain, 0 for NULL
ReturnedAt ==
    IF call.ret = NULL THEN 0
    ELSE CHOOSE r \in 1..Len(Given) : Given[r] = call.ret

\* C12 as claimed: the returned link is the first link not fully consumed: every
\* link before it holds a special or drained buffer and the returned buffer has
\* remaining size > 0; NULL is returned whenever every buffer of the chain is
\* drained after the call.
C12_Original ==
    SentDone =>
        /\ call.ret # NULL =>
              /\ \A i \in 1..(ReturnedAt - 1) : ConsumedAfter(i)
              /\ ~ConsumedAfter(ReturnedAt)
        /\ (\A i \in 1..Len(Given) : ConsumedAfter(i)) => call.ret = NULL

\* the walk stops at link r: the buffer is not special, and nothing is left of
\* sent or less than the buffer holds
StopsAt(r) ==
    /\ ~SpecialBefore(r)
    /\ SumTo(SizeBefore, r - 1) = call.sent \/ SumTo(SizeBefore, r) > call.sent

\* C12 (amended): the returned link is the first link with a non-special buffer
\* that the walk reaches with nothing left of sent, or with less left than the
\* buffer holds, and NULL when there is none (so whenever sent exceeds the chain's
\* size). Every link before it holds a special or drained buffer. The returned
\* buffer has remaining size > 0, except that a non-special buffer of size 0
\* reached with nothing left of sent is returned as it was: a chain whose buffers
\* are all drained after the call is answered with NULL only if no such buffer
\* is on it.
C12_FirstUnconsumed ==
    SentDone =>
        /\ call.ret # NULL =>
              /\ StopsAt(ReturnedAt)
              /\ \A i \in 1..(ReturnedAt - 1) : ~StopsAt(i) /\ ConsumedAfter(i)
              /\ \/ SizeAfter(ReturnedAt) > 0
                 \/ /\ SizeBefore(ReturnedAt) = 0
                    /\ SumTo(SizeBefore, ReturnedAt - 1) = call.sent
                    /\ BufOf(Heap, call.ret) = BufOf(call.pre, call.ret)
        /\ call.ret = NULL =>
              /\ \A i \in 1..Len(Given) : ~StopsAt(i) /\ ConsumedAfter(i)
        /\ call.sent > SumTo(SizeBefore, Len(Given)) => call.ret = NULL

\* a flush marker, a buffer sent whole, then a buffer of 2 bytes of which 1 was
\* sent: the third link is returned with 1 byte left
C12_Witness ==
    /\ SentDone
    /\ Len(Given) = 3
    /\ BufOf(call.pre, Given[1]) = Flush(TagT)
    /\ BufOf(call.pre, Given[2]) = File(1)
    /\ BufOf(call.pre, Given[3]) = Mem(2)
    /\ call.sent = 2
    /\ call.ret = Given[3]
    /\ SizeAfter(3) = 1

\* C13: ngx_chain_update_sent walks over special buffers wherever they are on the
\* chain, taking nothing from sent for them and leaving them as they were (the
\* bytes taken from the other buffers are sent, or all they held), and never
\* returns one; with sent = 0 and a non-special head buffer it returns the head
\* and changes no buffer.
C13_SpecialsSkipped ==
    SentDone =>
        /\ links = call.pre.links
        /\ \A i \in 1..Len(Given) :
              SpecialBefore(i) =>
                  /\ BufOf(Heap, Given[i]) = BufOf(call.pre, Given[i])
                  /\ call.ret # Given[i]
        /\ LET total == SumTo(SizeBefore, Len(Given))
               taken == IF call.sent < total THEN call.sent ELSE total
           IN  SumTo(SizeAfter, Len(Given)) = total - taken
        /\ (Len(Given) > 0 /\ call.sent = 0 /\ ~SpecialBefore(1)) =>
              /\ call.ret = Given[1]
              /\ bufs = call.pre.bufs

\* a flush marker between two buffers, 3 bytes sent: the marker is as it was and
\* the link after it is returned with 2 of its 3 bytes left
C13_Witness ==
    /\ SentDone
    /\ Len(Given) = 3
    /\ BufOf(call.pre, Given[1]) = Mem(2)
    /\ BufOf(call.pre, Given[2]) = Flush(TagT)
    /\ BufOf(call.pre, Given[3]) = File(3)
    /\ BufOf(Heap, Given[2]) = Flush(TagT)
    /\ call.sent = 3
    /\ call.ret = Given[3]
    /\ BufOf(Heap, Given[3]).file_pos = 2

\* ---------------------------------------------------------------- create_chain_of_bufs: success
\* the allocations the call makes: the data block, a header for each buffer, and
\* a link for each buffer that pool->chain does not supply
CreateNeeds ==
    LET np == Len(ChainOf(call.pre, call.pre.pool_chain))
    IN  1 + call.num + (IF call.num > np THEN call.num - np ELSE 0)

\* C14: ngx_create_chain_of_bufs(N, S) with N, S > 0 and no allocation failure
\* returns a null-terminated chain of exactly N links; buffer i has
\* start = base + (i-1)*S, end = start + S, pos = last = start and the temporary
\* flag set, base being the block the arena gave: the N memory ranges are
\* contiguous and do not overlap, in chain order.
C14_CreateChainOfBufs ==
    (Created /\ call.pre.arena.room >= CreateNeeds) =>
        LET base == call.pre.arena.brk
            made == ChainOf(Heap, call.ret)
        IN  /\ call.ret # NULL
            /\ chain = call.ret
            /\ NullTerminated(Heap, call.ret)
            /\ Len(made) = call.num
            /\ made = call.built
            /\ NoRepeats(made)
            /\ \A i \in 1..Len(made) :
                  LET b == BufOf(Heap, made[i])
                  IN  /\ b.start = base + (i - 1) * call.size
                      /\ b.end = b.start + call.size
                      /\ b.pos = b.start /\ b.last = b.start
                      /\ b.temporary
                      /\ b = [ngx_calloc_buf EXCEPT !.start = b.start, !.pos = b.start,
                                  !.last = b.start, !.end = b.end, !.temporary = TRUE]
            /\ \A i \in 1..(Len(made) - 1) :
                  BufOf(Heap, made[i]).end = BufOf(Heap, made[i + 1]).start
            /\ \A i, j \in 1..Len(made) :
                  i # j => links[made[i]].buf # links[made[j]].buf
            /\ arena.brk = base + call.num * call.size

\* three buffers of two bytes from a block at 3, the first link taken from
\* pool->chain: the ranges are 3..5, 5..7, 7..9
C14_Witness ==
    /\ Created
    /\ call.num = 3 /\ call.size = 2
    /\ call.pre.arena.brk = 3
    /\ call.pre.pool_chain # NULL
    /\ call.ret = call.pre.pool_chain
    /\ Len(ChainOf(Heap, call.ret)) = 3
    /\ BufOf(Heap, ChainOf(Heap, call.ret)[3]).start = 7
    /\ BufOf(Heap, ChainOf(Heap, call.ret)[3]).end = 9

\* ---------------------------------------------------------------- list: properties
ListLive == pc = "list_push"

Pushed == ListLive /\ call.op = "list_push"

\* the parts reached from part p by following next, at most n of them
RECURSIVE PartWalk(_, _, _)
PartWalk(l, p, n) ==
    IF p = NULL \/ p \notin 1..Len(l.parts) \/ n = 0 THEN <<>>
    ELSE <<p>> \o PartWalk(l, l.parts[p].next, n - 1)

\* the parts of the list in link order, from the part in the header
PartsOf(l) == PartWalk(l, 1, Len(l.parts) + 1)

\* the addresses of the used slots of part p, in index order
SlotsOf(l, p) == [j \in 1..l.parts[p].nelts |-> l.parts[p].elts + l.size * (j - 1)]

\* the used slots of the parts ps, parts in the order of ps, slots in index order
RECURSIVE SlotsIn(_, _)
SlotsIn(l, ps) ==
    IF ps = <<>> THEN <<>> ELSE SlotsOf(l, Head(ps)) \o SlotsIn(l, Tail(ps))

RECURSIVE UsedIn(_, _)
UsedIn(l, ps) ==
    IF ps = <<>> THEN 0 ELSE l.parts[Head(ps)].nelts + UsedIn(l, Tail(ps))

TailFull(l) == l.parts[l.last].nelts = l.nalloc

\* C15: for a list of capacity n >= 1, after any sequence of ngx_list_push calls:
\* every part has used-count <= n, every part except the tail is full, a new part
\* is allocated only when the tail is full, the used-counts add up to the number
\* of successful pushes, and walking the parts in link order and the slots in
\* index order visits the slots in the order they were returned. A push fails
\* only when the tail is full and an allocation fails, and a failed push leaves
\* the list (parts, used-counts, tail) unchanged.
C15_ListPush ==
    ListLive =>
        LET ps == PartsOf(list)
        IN  /\ list.nalloc >= 1
            /\ Len(ps) = Len(list.parts)
            /\ ps[Len(ps)] = list.last
            /\ list.parts[list.last].next = NULL
            /\ \A i \in 1..Len(ps) : list.parts[ps[i]].nelts <= list.nalloc
            /\ \A i \in 1..(Len(ps) - 1) : list.parts[ps[i]].nelts = list.nalloc
            /\ UsedIn(list, ps) = Len(call.slots)
            /\ SlotsIn(list, ps) = call.slots
            /\ NoRepeats(call.slots)
            /\ Pushed =>
                  /\ arena.room # call.pre.arena.room => TailFull(call.pre.list)
                  /\ Len(list.parts) > Len(call.pre.list.parts) =>
                        /\ TailFull(call.pre.list)
                        /\ Len(list.parts) = Len(call.pre.list.parts) + 1
                        /\ list.last = Len(list.parts)
                        /\ call.ret = list.parts[list.last].elts
                  /\ call.ret = NULL =>
                        /\ TailFull(call.pre.list)
                        /\ call.pre.arena.room < 2
                        /\ list = call.pre.list
                  /\ (~TailFull(call.pre.list) \/ call.pre.arena.room >= 2) =>
                        call.ret # NULL
                  /\ call.ret # NULL =>
                        /\ call.slots[Len(call.slots)] = call.ret
                        /\ UsedIn(list, ps) = UsedIn(call.pre.list, PartsOf(call.pre.list)) + 1

\* a list of capacity 2 after five pushes: two full parts and a tail with one
\* slot used, the third part allocated by the fifth push
C15_Witness ==
    /\ Pushed
    /\ list.nalloc = 2 /\ list.size = 2
    /\ Len(call.slots) = 5
    /\ Len(list.parts) = 3
    /\ Len(call.pre.list.parts) = 2
    /\ list.parts[3].nelts = 1
    /\ call.ret = list.parts[3].elts

\* ---------------------------------------------------------------- update_chains: what counts as drained
\* link i of busy followed by out is no longer on busy
Removed(i) == Submitted[i] \notin Range(ChainOf(Heap, busy))

FileLeft(b) == b.in_file /\ b.file_pos < b.file_last

MemoryLeft(b) == ngx_buf_in_memory(b) /\ b.pos < b.last

CursorsInOrder(b) ==
    /\ b.start <= b.pos /\ b.pos <= b.last /\ b.last <= b.end
    /\ b.file_pos <= b.file_last

\* C17: every buffer keeps start <= pos <= last <= end and file_pos <= file_last
\* in every state reached by creating buffers, producer writes that respect these
\* orders, ngx_chain_update_sent with any sent >= 0 and ngx_chain_update_chains,
\* also when a buffer is both memory- and file-backed.
C17_CursorsInOrder == \A i \in 1..Len(bufs) : CursorsInOrder(bufs[i])

\* ---------------------------------------------------------------- coalesce_file: never empty
\* the page boundary at or after the end of the truncated segment
RoundedEnd ==
    LET end == BufOf(call.pre, Given[Reached]).file_pos + Rest
    IN  CHOOSE a \in end..(end + call.pagesize - 1) : a % call.pagesize = 0

\* C18: ngx_chain_coalesce_file never returns 0 when the head buffer has a
\* non-empty file range and limit > 0; when the page boundary a truncated segment
\* is rounded to cannot be used (it gives no bytes, or lies past the segment), the
\* un-rounded size limit - total is what the segment adds.
C18_NeverEmpty ==
    Coalesced =>
        /\ (FileSize(1) > 0 /\ call.limit > 0) => call.ret > 0
        /\ Truncated =>
              LET b == BufOf(call.pre, Given[Reached])
              IN  /\ Rest > 0
                  /\ Contribution > 0
                  /\ (RoundedEnd - b.file_pos <= 0 \/ RoundedEnd > b.file_last) =>
                        Contribution = Rest

\* bytes 0..2 with limit 1 and pages of 4: the boundary 4 lies past the segment, the
\* total is 1
C18_Witness ==
    /\ Truncated
    /\ Reached = 1
    /\ BufOf(call.pre, Given[1]) = FileRange(1, 0, 2)
    /\ call.limit = 1
    /\ call.pagesize = 4
    /\ RoundedEnd = 4
    /\ call.ret = 1

\* ---------------------------------------------------------------- the recycling loop: properties
Recycling == pc = "recycle"

\* the links of the chain that starts at cl, as a set
OnChain(h, cl) == Range(ChainOf(h, cl))

WellFormed(h, cl) == NullTerminated(h, cl) /\ NoRepeats(ChainOf(h, cl))

\* no link is on two of free, busy, out and pool->chain
Disjoint(h) ==
    /\ OnChain(h, h.free) \cap OnChain(h, h.busy) = {}
    /\ OnChain(h, h.free) \cap OnChain(h, h.out) = {}
    /\ OnChain(h, h.free) \cap OnChain(h, h.pool_chain) = {}
    /\ OnChain(h, h.busy) \cap OnChain(h, h.out) = {}
    /\ OnChain(h, h.busy) \cap OnChain(h, h.pool_chain) = {}
    /\ OnChain(h, h.out) \cap OnChain(h, h.pool_chain) = {}

\* C19: for one pool and one consumer, in every state reached by calls of
\* ngx_chain_get_free_buf (the caller appending the returned link to out),
\* ngx_chain_update_sent and ngx_chain_update_chains: every link is on at most one
\* of free, busy, out and pool->chain, each of the four is acyclic and ends at
\* NULL, and ngx_chain_update_chains loses and duplicates no link: each link of
\* old busy and old out ends on exactly one of busy, free and pool->chain;
\* ngx_chain_get_free_buf with a non-empty free returns free's head with a null
\* successor and removes only that link from free.
C19_LinksConserved ==
    Recycling =>
        /\ Disjoint(Heap)
        /\ WellFormed(Heap, free) /\ WellFormed(Heap, busy)
        /\ WellFormed(Heap, out) /\ WellFormed(Heap, pool_chain)
        /\ call.op = "update_chains" =>
              /\ out = NULL
              /\ OnChain(Heap, busy) \cup OnChain(Heap, free) \cup OnChain(Heap, pool_chain)
                    = OnChain(call.pre, call.pre.busy) \cup OnChain(call.pre, call.pre.out)
                      \cup OnChain(call.pre, call.pre.free)
                      \cup OnChain(call.pre, call.pre.pool_chain)
              /\ OnChain(call.pre, call.pre.free) \subseteq OnChain(Heap, free)
              /\ OnChain(call.pre, call.pre.pool_chain) \subseteq OnChain(Heap, pool_chain)
              /\ OnChain(Heap, busy)
                    \subseteq OnChain(call.pre, call.pre.busy) \cup OnChain(call.pre, call.pre.out)
        /\ (call.op = "get_free_buf" /\ call.pre.free # NULL) =>
              /\ call.ret = call.pre.free
              /\ links[call.ret].next = NULL
              /\ ChainOf(Heap, free) = Tail(ChainOf(call.pre, call.pre.free))
              /\ ChainOf(Heap, out) = Append(ChainOf(call.pre, call.pre.out), call.ret)
              /\ busy = call.pre.busy /\ pool_chain = call.pre.pool_chain
        /\ call.op = "update_sent" => links = call.pre.links

\* two links were on free; the head of free was handed out and is now the last
\* link of out, the other is still on free
C19_Witness ==
    /\ Recycling
    /\ call.op = "get_free_buf"
    /\ Len(ChainOf(call.pre, call.pre.free)) = 2
    /\ call.ret = call.pre.free
    /\ Len(ChainOf(Heap, free)) = 1
    /\ ChainOf(Heap, out)[Len(ChainOf(Heap, out))] = call.ret

\* ---------------------------------------------------------------- the writer loop: properties
WriterDone == pc = "writer_done"

\* the links of the chain the loop started with whose buffer has the consumer's tag
Own == {cl \in Range(call.given) : BufOf(Heap, cl).tag = TagT}

Emptied ==
    /\ WriterDone
    /\ busy = NULL
    /\ Own \subseteq OnChain(Heap, free)
    /\ Range(call.given) \ Own \subseteq OnChain(Heap, pool_chain)

\* one round that reported at least the bytes busy held leaves busy empty
OneRoundEnough ==
    (call.op = "writer_recycle" /\ call.sent >= call.total) => busy = NULL

\* C20: in a writer loop that, while busy holds unsent bytes, reports some
\* sent >= 1 to ngx_chain_update_sent on busy and then calls
\* ngx_chain_update_chains with no new out, busy eventually becomes empty and
\* every link that carried the consumer's tag ends on free; one
\* ngx_chain_update_sent with sent >= the bytes left on busy followed by one
\* ngx_chain_update_chains leaves busy empty.
C20_WriterDrains == <>Emptied /\ []OneRoundEnough

\* a chain of two buffers took more than one round, the last round reported more
\* than was left, the consumer's link is on free and the other on pool->chain
C20_Witness ==
    /\ Emptied
    /\ Len(call.given) = 2
    /\ call.rounds >= 2
    /\ call.sent > call.total
    /\ Own # {}
    /\ Own # Range(call.given)
====
